---- MODULE Spec2Model ----
(***************************************************************************)
(* PromptDjController of src/index.tsx (lines 283-626): the playback       *)
(* state machine, the session callbacks, the throttled prompt push and     *)
(* the chunk scheduler.                                                    *)
(*                                                                         *)
(* The program is single threaded.  One action of this module is one       *)
(* macrotask (a click, a prompt-changed event, a session callback, a       *)
(* timer, the settling of a promise of the session library or of the       *)
(* decoder) together with the microtasks it queues: an `await` of a value  *)
(* that is already settled (ensureAudioContextResumed on a running audio   *)
(* context, an async function that returned without awaiting) resumes      *)
(* within the same action.  The handlers are operators from a state        *)
(* record to a state record, so that a handler can call another one.       *)
(* Times are in milliseconds; `now` is both Date.now() and                 *)
(* audioContext.currentTime (the audio context is running).                *)
(***************************************************************************)
EXTENDS Integers, Sequences, FiniteSets, TLC

\* ---- bounds of the model -------------------------------------------------
MaxClicks == 3
MaxEdits == 2
MaxSessions == 2
MaxChunks == 2
MaxFilters == 1
MaxTime == 2250
TickStep == 750
MaxEvents == 4
NumPrompts == 2

\* ---- constants of the program --------------------------------------------
ThrottleDelay == 250
bufferTime == 1500
UnderrunGap == 200

Texts == {"bossa", "chill"}
Weights == {0, 1}
Durations == {500, 2000}
PromptIds == 1..NumPrompts
DefaultText(i) == IF i % 2 = 1 THEN "bossa" ELSE "chill"
NeverCalled == 0 - ThrottleDelay

VARIABLES playbackState, session, connectionError, nextStartTime, prompts,
          filteredPrompts, lastCall, lastResult, now, sessions, plays,
          pushes, pushCount, chunks, timers, sched, lastSnap, gain, ghost,
          counts, ev

vars == <<playbackState, session, connectionError, nextStartTime, prompts,
          filteredPrompts, lastCall, lastResult, now, sessions, plays,
          pushes, pushCount, chunks, timers, sched, lastSnap, gain, ghost,
          counts, ev>>

\* ---- the state as a record ------------------------------------------------
Cur ==
  [playbackState |-> playbackState, session |-> session,
   connectionError |-> connectionError, nextStartTime |-> nextStartTime,
   prompts |-> prompts, filteredPrompts |-> filteredPrompts,
   lastCall |-> lastCall, lastResult |-> lastResult, sessions |-> sessions,
   plays |-> plays, pushes |-> pushes, pushCount |-> pushCount,
   chunks |-> chunks, timers |-> timers, sched |-> sched,
   lastSnap |-> lastSnap, gain |-> gain, ghost |-> ghost, counts |-> counts, ev |-> ev]

Set(S) ==
  /\ playbackState' = S.playbackState
  /\ session' = S.session
  /\ connectionError' = S.connectionError
  /\ nextStartTime' = S.nextStartTime
  /\ prompts' = S.prompts
  /\ filteredPrompts' = S.filteredPrompts
  /\ lastCall' = S.lastCall
  /\ lastResult' = S.lastResult
  /\ sessions' = S.sessions
  /\ plays' = S.plays
  /\ pushes' = S.pushes
  /\ pushCount' = S.pushCount
  /\ chunks' = S.chunks
  /\ timers' = S.timers
  /\ sched' = S.sched
  /\ lastSnap' = S.lastSnap
  /\ gain' = S.gain
  /\ ghost' = S.ghost
  /\ counts' = S.counts
  /\ ev' = S.ev
  /\ now' = now

\* What the handler of the last step did (observation only).
NoEvent(op, prev) ==
  [op |-> op, prev |-> prev, sent |-> <<>>, toasts |-> <<>>,
   wasClean |-> TRUE, nullDeref |-> FALSE, staleFired |-> FALSE,
   ended |-> <<>>, issued |-> <<>>, started |-> FALSE]

Begin(op) == [Cur EXCEPT !.ev = NoEvent(op, playbackState)]

Stopped(st) == st \in {"paused", "stopped"}
Active(st) == st \in {"playing", "loading"}

\* toastMessage.show(msg)
show(S, msg) == [S EXCEPT !.ev.toasts = Append(@, msg)]

\* A call of a method of this.session (this.session is not null).
send(S, op, snap) ==
  LET s == S.session IN
  [S EXCEPT
     !.ev.sent = Append(@, [op |-> op, sess |-> s,
                            err |-> S.connectionError,
                            status |-> S.sessions[s].status, snap |-> snap]),
     !.sessions[s] =
        IF op = "play" THEN [@ EXCEPT !.played = TRUE]
        ELSE IF op \in {"stop", "close"} /\ @.status = "open"
             THEN [@ EXCEPT !.status = "closing"]
        ELSE @]

MarkStale(ts) == [k \in 1..Len(ts) |-> [ts[k] EXCEPT !.stale = TRUE]]

getPromptsToSend(S) ==
  LET act == SelectSeq(S.prompts,
                LAMBDA p : p.text \notin S.filteredPrompts /\ p.weight > 0)
  IN [k \in 1..Len(act) |-> [text |-> act[k].text, weight |-> act[k].weight]]

TextsOf(snap) == {snap[k].text : k \in 1..Len(snap)}

\* The gain automation of lines 551-554, 589-592 and 607-610: the value the
\* gain has now is read, pending automation is cancelled, that value is set
\* at the current time and a linear ramp leads to the target.  gain.value is
\* the gain at the current instant, gain.target the end of the ramp; every
\* ramp (0.1 s or 0.2 s) has ended by the next Tick.
ramp(S, target) == [S EXCEPT !.gain = [value |-> @.value, target |-> target]]

\* pause() that also drops the session handle, as stop() does.
pauseClearsSession(S) ==
  LET S1 == IF S.session # 0 /\ Active(S.playbackState)
            THEN send(S, "pause", <<>>) ELSE S
  IN [ramp(S1, 0) EXCEPT !.playbackState = "paused", !.timers = MarkStale(@),
                         !.session = 0]

\* pause() whose ramp starts from the target of the automation it cancels.
pauseFromStaleTarget(S) ==
  LET S1 == IF S.session # 0 /\ Active(S.playbackState)
            THEN send(S, "pause", <<>>) ELSE S
  IN [S1 EXCEPT !.playbackState = "paused", !.timers = MarkStale(@),
                !.gain = [value |-> @.target, target |-> 0]]

pause(S) ==
  LET S1 == IF S.session # 0 /\ Active(S.playbackState)
            THEN send(S, "pause", <<>>) ELSE S
  IN [ramp(S1, 0) EXCEPT !.playbackState = "paused", !.timers = MarkStale(@)]

stop(S) ==
  LET S1 == IF S.session # 0
            THEN [send(S, "stop", <<>>) EXCEPT !.session = 0] ELSE S
  IN [ramp(S1, 0) EXCEPT !.playbackState = "stopped", !.nextStartTime = 0,
                         !.timers = MarkStale(@)]

\* The function given to throttle with the zero-prompt branch of lines
\* 443-447 left out: an empty snapshot just returns.
setSessionPromptsBodyNoPause(S) ==
  LET promptsToSend == getPromptsToSend(S) IN
  IF S.session = 0 \/ S.connectionError THEN [S EXCEPT !.lastResult = 0]
  ELSE IF Len(promptsToSend) = 0 THEN [S EXCEPT !.lastResult = 0]
  ELSE [send(S, "setWeightedPrompts", promptsToSend)
          EXCEPT !.pushCount = @ + 1,
                 !.pushes = @ \cup {[id |-> S.pushCount + 1,
                                     snap |-> promptsToSend]},
                 !.lastResult = S.pushCount + 1,
                 !.lastSnap = promptsToSend]

\* The async function given to throttle, up to its first await or return.
\* lastResult = 0 stands for a promise that is already settled.
setSessionPromptsBody(S) ==
  LET promptsToSend == getPromptsToSend(S) IN
  IF S.session = 0 \/ S.connectionError THEN [S EXCEPT !.lastResult = 0]
  ELSE IF Len(promptsToSend) = 0 /\ Active(S.playbackState)
  THEN [pause(show(S, "No active prompts. Pausing music."))
          EXCEPT !.lastResult = 0,
                 !.ghost.zeroed = IF @ = "pending" THEN "done" ELSE @]
  ELSE IF Len(promptsToSend) = 0 THEN [S EXCEPT !.lastResult = 0]
  ELSE [send(S, "setWeightedPrompts", promptsToSend)
          EXCEPT !.pushCount = @ + 1,
                 !.pushes = @ \cup {[id |-> S.pushCount + 1,
                                     snap |-> promptsToSend]},
                 !.lastResult = S.pushCount + 1,
                 !.lastSnap = promptsToSend]

\* throttle without the test of line 44: every call runs the function.
throttleAlways(S) ==
  [setSessionPromptsBody(S) EXCEPT !.lastCall = now]

throttle(S) ==
  IF now - S.lastCall >= ThrottleDelay
  THEN [setSessionPromptsBody(S) EXCEPT !.lastCall = now]
  ELSE S

Pending(S, k) == \E p \in S.pushes : p.id = k

\* play(), lines 583-595: after `await this.setSessionPrompts()`.
playPushed(S, p) ==
  LET done == [S EXCEPT !.ev.ended = Append(@, [from |-> p.from,
                                               noActive |-> p.noActive])]
  IN
  IF S.playbackState = "paused" /\ Len(getPromptsToSend(S)) = 0 THEN done
  ELSE IF S.session = 0 THEN [done EXCEPT !.ev.nullDeref = TRUE]
  ELSE [ramp(send(done, "play", <<>>), 1)
          EXCEPT !.playbackState = "loading", !.nextStartTime = 0,
                 !.ev.issued = Append(@,
                     [pushed |-> p.pushed,
                      current |-> p.pushed /\ S.lastSnap = getPromptsToSend(S)])]

\* play(), lines 573-582: from getPromptsToSend() to the await.
playConnected(S, p) ==
  LET promptsToSend == getPromptsToSend(S)
      S1 == show(S, "Add some vibes! Turn up a prompt slider to begin.")
      S2 == throttle(S)
      q == [p EXCEPT !.pc = "push", !.wait = S2.lastResult,
                     !.pushed = S2.pushCount > S.pushCount]
  IN
  IF Len(promptsToSend) = 0
  THEN [(IF Active(S1.playbackState) THEN pause(S1) ELSE S1)
          EXCEPT !.ev.ended = Append(@, [from |-> p.from,
                                         noActive |-> p.noActive])]
  ELSE IF Pending(S2, S2.lastResult)
       THEN [S2 EXCEPT !.plays = Append(@, q)]
       ELSE playPushed(S2, q)

\* connectToSession(), lines 344-350: up to `await ai.live.music.connect`.
connectToSession(S, p) ==
  LET s == Len(S.sessions) + 1 IN
  IF S.session # 0 /\ ~S.connectionError THEN playConnected(S, p) ELSE
  [S EXCEPT !.playbackState = "loading", !.connectionError = FALSE,
            !.sessions = Append(@, [status |-> "connecting",
                                    played |-> FALSE, setup |-> FALSE]),
            !.plays = Append(@, [p EXCEPT !.pc = "connect", !.sess = s])]

\* play(), lines 559-564.
play(S) ==
  LET p == [pc |-> "start", sess |-> 0, wait |-> 0, pushed |-> FALSE,
            from |-> S.playbackState,
            noActive |-> Len(getPromptsToSend(S)) = 0]
  IN IF S.session = 0 \/ S.connectionError
     THEN connectToSession(show(S, "Connecting to Lyria..."), p)
     ELSE playConnected(S, p)

handlePlayPause(S) ==
  IF S.playbackState = "playing" THEN pause(S)
  ELSE IF Stopped(S.playbackState) THEN play(S)
  ELSE [stop(S) EXCEPT !.ghost.cancelled = TRUE]


\* handlePromptChanged, lines 475-499 (the colour is not modelled).
handlePromptChanged(S, i, text, weight) ==
  LET prompt == S.prompts[i]
      oldText == prompt.text
      last == /\ S.playbackState = "playing" /\ S.session # 0
              /\ ~S.connectionError
              /\ Len(getPromptsToSend(S)) = 1
              /\ prompt.weight > 0 /\ oldText \notin S.filteredPrompts
              /\ weight = 0 /\ text = oldText
      S1 == [S EXCEPT
               !.filteredPrompts =
                  IF oldText \in @ /\ text # oldText THEN @ \ {oldText} ELSE @,
               !.prompts[i] = [@ EXCEPT !.text = text, !.weight = weight],
               !.ghost.zeroed = IF last THEN "pending" ELSE "no"]
      S2 == [S1 EXCEPT !.ghost.burst =
                 /\ S.session # 0 /\ ~S.connectionError
                 /\ S.sessions[S.session].status = "open"
                 /\ Len(getPromptsToSend(S1)) > 0
                 /\ getPromptsToSend(S1) # getPromptsToSend(S)]
  IN IF prompt.text # text \/ prompt.weight # weight THEN throttle(S2) ELSE S

\* setSessionPrompts, lines 452-465: after `await session.setWeightedPrompts`,
\* then the play() invocations that awaited this promise, in order.
RECURSIVE resume(_, _)
resume(S, ps) == IF ps = <<>> THEN S ELSE resume(playPushed(S, Head(ps)), Tail(ps))

\* A catch block that treats the rejected push as a connection error.
setWeightedPromptsSettledFatal(S, push, ok) ==
  LET waits(p) == p.pc = "push" /\ p.wait = push.id
      S1 == [S EXCEPT !.pushes = @ \ {push},
                      !.plays = SelectSeq(@, LAMBDA p : ~waits(p))]
      S2 == IF ok
            THEN [S1 EXCEPT !.filteredPrompts = @ \cap TextsOf(push.snap)]
            ELSE [show(S1, "Error setting prompts")
                    EXCEPT !.connectionError = TRUE,
                           !.playbackState = "stopped"]
  IN resume(S2, SelectSeq(S.plays, waits))

setWeightedPromptsSettled(S, push, ok) ==
  LET waits(p) == p.pc = "push" /\ p.wait = push.id
      S1 == [S EXCEPT !.pushes = @ \ {push},
                      !.plays = SelectSeq(@, LAMBDA p : ~waits(p))]
      S2 == IF ok
            THEN [S1 EXCEPT !.filteredPrompts = @ \cap TextsOf(push.snap)]
            ELSE show(S1, "Error setting prompts")
  IN resume(S2, SelectSeq(S.plays, waits))

\* connectToSession, line 350 (assignment) and 421, then play() lines 565-582.
connectResolved(S, k) ==
  LET p == S.plays[k]
      S1 == [S EXCEPT !.session = p.sess,
                      !.sessions[p.sess].status = "open",
                      !.plays = SubSeq(@, 1, k - 1) \o SubSeq(@, k + 1, Len(@))]
  IN playConnected(S1, p)

\* A catch block that reports the failure but does not set connectionError.
connectRejectedNoFlag(S, k) ==
  LET p == S.plays[k]
      S1 == [S EXCEPT !.playbackState = "stopped",
                      !.sessions[p.sess].status = "closed",
                      !.ghost.fatal = TRUE,
                      !.plays = SubSeq(@, 1, k - 1) \o SubSeq(@, k + 1, Len(@))]
      S2 == show(show(S1, "Connection failed"), "Connection failed. Cannot play.")
  IN [S2 EXCEPT !.playbackState = "stopped",
                !.ev.ended = Append(@, [from |-> p.from,
                                        noActive |-> p.noActive])]

\* connectToSession, lines 422-429, then play() lines 565-570.
connectRejected(S, k) ==
  LET p == S.plays[k]
      S1 == [S EXCEPT !.connectionError = TRUE, !.playbackState = "stopped",
                      !.sessions[p.sess].status = "closed",
                      !.ghost.fatal = TRUE,
                      !.plays = SubSeq(@, 1, k - 1) \o SubSeq(@, k + 1, Len(@))]
      S2 == show(show(S1, "Connection failed"), "Connection failed. Cannot play.")
  IN [S2 EXCEPT !.playbackState = "stopped",
                !.ev.ended = Append(@, [from |-> p.from,
                                        noActive |-> p.noActive])]

\* onmessage, lines 354-356.
onmessageSetupComplete(S) == [S EXCEPT !.connectionError = FALSE]

\* onmessage, lines 357-361.
onmessageFilteredPrompt(S, text) ==
  show([S EXCEPT !.filteredPrompts = @ \cup {text}], "Filtered")

\* onmessage, lines 362-372: up to `await decodeAudioData` of audioChunks[0].
onmessageAudioChunks(S, s, n) ==
  [S EXCEPT !.chunks = Append(@,
      [sess |-> s, n |-> n,
       st |-> IF Stopped(S.playbackState) THEN "returned" ELSE "decoding"])]

\* The decoder of ./utils: the buffer's duration, or a failure.
decodeAudioData == [ok : {TRUE}, duration : Durations]
                     \cup [ok : {FALSE}, duration : {0}]

\* onmessage without line 396: the cursor is not advanced past the buffer.
onmessageDecodedNoAdvance(S, c, buf) ==
  LET first == S.nextStartTime = 0 /\ S.playbackState = "loading"
      S1 == IF first
            THEN [S EXCEPT !.nextStartTime = now + bufferTime,
                           !.timers = Append(@, [due |-> now + bufferTime,
                                                 stale |-> FALSE])]
            ELSE S
      under == S1.nextStartTime < now /\ ~Stopped(S1.playbackState)
      S2 == IF under
            THEN [S1 EXCEPT !.playbackState = "loading",
                            !.nextStartTime = now + UnderrunGap]
            ELSE S1
  IN
  IF ~buf.ok THEN [S EXCEPT !.chunks[c].st = "failed"]
  ELSE IF S.nextStartTime = 0 /\ ~first
  THEN [S EXCEPT !.chunks[c].st = "discarded"]
  ELSE [S2 EXCEPT !.chunks[c].st = "scheduled",
                  !.sched = Append(@, [chunk |-> c, at |-> S2.nextStartTime,
                                       duration |-> buf.duration,
                                       state |-> S2.playbackState,
                                       first |-> first]),
                  !.ev.started = TRUE]

\* onmessage without the underrun branch of lines 389-394.
onmessageDecodedNoReanchor(S, c, buf) ==
  LET first == S.nextStartTime = 0 /\ S.playbackState = "loading"
      S1 == IF first
            THEN [S EXCEPT !.nextStartTime = now + bufferTime,
                           !.timers = Append(@, [due |-> now + bufferTime,
                                                 stale |-> FALSE])]
            ELSE S
  IN
  IF ~buf.ok THEN [S EXCEPT !.chunks[c].st = "failed"]
  ELSE IF S.nextStartTime = 0 /\ ~first
  THEN [S EXCEPT !.chunks[c].st = "discarded"]
  ELSE [S1 EXCEPT !.chunks[c].st = "scheduled",
                  !.sched = Append(@, [chunk |-> c, at |-> S1.nextStartTime,
                                       duration |-> buf.duration,
                                       state |-> S1.playbackState,
                                       first |-> first]),
                  !.ev.started = TRUE,
                  !.nextStartTime = S1.nextStartTime + buf.duration]

\* onmessage in which a failed decode is fatal: it stops the playback.
onmessageDecodedFailStops(S, c, buf) ==
  LET first == S.nextStartTime = 0 /\ S.playbackState = "loading"
      S1 == IF first
            THEN [S EXCEPT !.nextStartTime = now + bufferTime,
                           !.timers = Append(@, [due |-> now + bufferTime,
                                                 stale |-> FALSE])]
            ELSE S
      under == S1.nextStartTime < now /\ ~Stopped(S1.playbackState)
      S2 == IF under
            THEN [S1 EXCEPT !.playbackState = "loading",
                            !.nextStartTime = now + UnderrunGap]
            ELSE S1
  IN
  IF ~buf.ok THEN [S EXCEPT !.chunks[c].st = "failed",
                            !.playbackState = "stopped",
                            !.nextStartTime = 0]
  ELSE IF S.nextStartTime = 0 /\ ~first
  THEN [S EXCEPT !.chunks[c].st = "discarded"]
  ELSE [S2 EXCEPT !.chunks[c].st = "scheduled",
                  !.sched = Append(@, [chunk |-> c, at |-> S2.nextStartTime,
                                       duration |-> buf.duration,
                                       state |-> S2.playbackState,
                                       first |-> first]),
                  !.ev.started = TRUE,
                  !.nextStartTime = S2.nextStartTime + buf.duration]

\* onmessage, lines 373-396: after the decode.
onmessageDecoded(S, c, buf) ==
  LET first == S.nextStartTime = 0 /\ S.playbackState = "loading"
      S1 == IF first
            THEN [S EXCEPT !.nextStartTime = now + bufferTime,
                           !.timers = Append(@, [due |-> now + bufferTime,
                                                 stale |-> FALSE])]
            ELSE S
      under == S1.nextStartTime < now /\ ~Stopped(S1.playbackState)
      S2 == IF under
            THEN [S1 EXCEPT !.playbackState = "loading",
                            !.nextStartTime = now + UnderrunGap]
            ELSE S1
  IN
  IF ~buf.ok THEN [S EXCEPT !.chunks[c].st = "failed"]
  ELSE IF S.nextStartTime = 0 /\ ~first
  THEN [S EXCEPT !.chunks[c].st = "discarded"]
  ELSE [S2 EXCEPT !.chunks[c].st = "scheduled",
                  !.sched = Append(@, [chunk |-> c, at |-> S2.nextStartTime,
                                       duration |-> buf.duration,
                                       state |-> S2.playbackState,
                                       first |-> first]),
                  !.ev.started = TRUE,
                  !.nextStartTime = S2.nextStartTime + buf.duration]

\* A timer callback that leaves the state as it is.
lookaheadKeepsState(S) == [S EXCEPT !.timers = Tail(@)]

\* The callback given to setTimeout, lines 379-384.
lookahead(S) ==
  LET t == Head(S.timers)
      S1 == [S EXCEPT !.timers = Tail(@)]
  IN IF S.playbackState = "loading"
     THEN [S1 EXCEPT !.playbackState = "playing", !.ev.staleFired = t.stale]
     ELSE S1

\* An onerror that retries the connection by itself.
onerrorRetries(S, s) ==
  LET S1 == show([S EXCEPT !.connectionError = TRUE,
                           !.playbackState = "stopped",
                           !.sessions[s].status = "closing",
                           !.ghost.fatal = TRUE, !.ghost.burst = FALSE,
                           !.ghost.zeroed = "no"],
                 "Connection error. Please try again.")
      S2 == IF S1.session # 0 THEN send(S1, "close", <<>>) ELSE S1
  IN connectToSession(S2, [pc |-> "start", sess |-> 0, wait |-> 0,
                           pushed |-> FALSE, from |-> S2.playbackState,
                           noActive |-> Len(getPromptsToSend(S2)) = 0])

\* onerror, lines 399-407, of session s.
onerror(S, s) ==
  LET S1 == show([S EXCEPT !.connectionError = TRUE,
                           !.playbackState = "stopped",
                           !.sessions[s].status = "closing",
                           !.ghost.fatal = TRUE, !.ghost.burst = FALSE,
                           !.ghost.zeroed = "no"],
                 "Connection error. Please try again.")
  IN IF S1.session # 0 THEN send(S1, "close", <<>>) ELSE S1

\* onclose without line 411: an unclean close that leaves connectionError.
oncloseKeepsFlag(S, s, wasClean) ==
  LET S1 == [S EXCEPT !.sessions[s].status = "closed",
                      !.ev.wasClean = wasClean,
                      !.ghost.fatal = @ \/ ~wasClean, !.ghost.burst = FALSE,
                      !.ghost.zeroed = "no"]
      S2 == IF ~wasClean /\ S.playbackState # "stopped"
            THEN show([S1 EXCEPT !.playbackState = "stopped"],
                      "Connection closed. Please restart audio.")
            ELSE S1
  IN [S2 EXCEPT !.session = 0]

\* onclose, lines 408-418, of session s.
onclose(S, s, wasClean) ==
  LET S1 == [S EXCEPT !.sessions[s].status = "closed",
                      !.ev.wasClean = wasClean,
                      !.ghost.fatal = @ \/ ~wasClean, !.ghost.burst = FALSE,
                      !.ghost.zeroed = "no"]
      S2 == IF ~wasClean /\ S.playbackState # "stopped"
            THEN show([S1 EXCEPT !.connectionError = TRUE,
                                 !.playbackState = "stopped"],
                      "Connection closed. Please restart audio.")
            ELSE S1
  IN [S2 EXCEPT !.session = 0]

\* ---- initial state ----------------------------------------------------------
Init ==
  /\ playbackState = "stopped"
  /\ session = 0
  /\ connectionError = FALSE
  /\ nextStartTime = 0
  /\ prompts \in {[i \in PromptIds |->
                     [promptId |-> i, text |-> DefaultText(i), weight |-> w[i]]]
                  : w \in [PromptIds -> Weights]}
  /\ filteredPrompts = {}
  /\ lastCall = NeverCalled
  /\ lastResult = 0
  /\ now = 0
  /\ sessions = <<>>
  /\ plays = <<>>
  /\ pushes = {}
  /\ pushCount = 0
  /\ chunks = <<>>
  /\ timers = <<>>
  /\ sched = <<>>
  /\ lastSnap = <<>>
  /\ gain = [value |-> 1, target |-> 1]
  /\ ghost = [cancelled |-> FALSE, fatal |-> FALSE, zeroed |-> "no",
              burst |-> FALSE]
  /\ counts = [clicks |-> 0, edits |-> 0, filters |-> 0, events |-> 0]
  /\ ev = NoEvent("init", "stopped")

\* ---- actions ------------------------------------------------------------------
\* An event of the user or of the server: the model bounds their number.
Event(op) == [Begin(op) EXCEPT !.counts.events = @ + 1]
UserActs(S) == [S EXCEPT !.ghost.fatal = FALSE]

HandlePlayPause ==
  /\ counts.clicks < MaxClicks /\ counts.events < MaxEvents
  /\ Stopped(playbackState) /\ (session = 0 \/ connectionError)
        => Len(sessions) < MaxSessions
  /\ LET S == [UserActs(Event("handlePlayPause")) EXCEPT
                 !.counts.clicks = @ + 1, !.ghost.burst = FALSE,
                 !.ghost.cancelled = FALSE,
                 !.ghost.zeroed = "no"]
     IN Set(handlePlayPause(S))

HandlePromptChanged ==
  /\ counts.edits < MaxEdits /\ counts.events < MaxEvents
  /\ \E i \in PromptIds, text \in Texts, weight \in Weights :
       /\ (text # prompts[i].text) # (weight # prompts[i].weight)
       /\ LET S == [UserActs(Event("handlePromptChanged")) EXCEPT
                      !.counts.edits = @ + 1]
          IN Set(handlePromptChanged(S, i, text, weight))

ConnectResolved ==
  \E k \in 1..Len(plays) :
    /\ plays[k].pc = "connect"
    /\ Set(connectResolved(Begin("connectResolved"), k))

ConnectRejected ==
  \E k \in 1..Len(plays) :
    /\ plays[k].pc = "connect"
    /\ Set(connectRejected(Begin("connectRejected"), k))

SetWeightedPromptsResolved ==
  \E push \in pushes :
    Set(setWeightedPromptsSettled(Begin("setWeightedPromptsResolved"), push, TRUE))

SetWeightedPromptsRejected ==
  \E push \in pushes :
    Set(setWeightedPromptsSettled(Begin("setWeightedPromptsRejected"), push, FALSE))

Live(s) == sessions[s].status \in {"open", "closing"}

OnMessageSetupComplete ==
  /\ counts.events < MaxEvents
  /\ \E s \in 1..Len(sessions) :
       /\ sessions[s].status = "open" /\ ~sessions[s].setup
       /\ Set(onmessageSetupComplete(
                [Event("setupComplete") EXCEPT !.sessions[s].setup = TRUE]))

OnMessageFilteredPrompt ==
  /\ counts.filters < MaxFilters /\ counts.events < MaxEvents
  /\ \E s \in 1..Len(sessions), text \in TextsOf(lastSnap) :
       /\ Live(s)
       /\ Set(onmessageFilteredPrompt(
                [Event("filteredPrompt") EXCEPT !.counts.filters = @ + 1,
                                                !.ghost.burst = FALSE],
                text))

OnMessageAudioChunks ==
  /\ Len(chunks) < MaxChunks /\ counts.events < MaxEvents
  /\ \E s \in 1..Len(sessions), n \in 1..2 :
       /\ Live(s) /\ sessions[s].played
       /\ Set(onmessageAudioChunks(Event("audioChunks"), s, n))

DecodeSettled ==
  \E c \in 1..Len(chunks), buf \in decodeAudioData :
    /\ chunks[c].st = "decoding"
    /\ Set(onmessageDecoded(Begin("decoded"), c, buf))

LookaheadTimer ==
  /\ timers # <<>>
  /\ now >= Head(timers).due
  /\ Set(lookahead(Begin("lookahead")))

OnError ==
  /\ counts.events < MaxEvents
  /\ \E s \in 1..Len(sessions) :
       /\ sessions[s].status = "open"
       /\ Set(onerror(Event("onerror"), s))

\* The close that follows stop(), close() or an error is no new event.
OnClose ==
  \E s \in 1..Len(sessions), wasClean \in BOOLEAN :
    /\ Live(s)
    /\ sessions[s].status = "open" => counts.events < MaxEvents
    /\ Set(onclose([Begin("onclose") EXCEPT !.counts.events =
                       IF sessions[s].status = "open" THEN @ + 1 ELSE @],
                    s, wasClean))

Tick ==
  /\ now + TickStep <= MaxTime
  /\ now' = now + TickStep
  /\ ev' = NoEvent("tick", playbackState)
  /\ gain' = [value |-> gain.target, target |-> gain.target]
  /\ UNCHANGED <<playbackState, session, connectionError, nextStartTime,
                 prompts, filteredPrompts, lastCall, lastResult, sessions,
                 plays, pushes, pushCount, chunks, timers, sched, lastSnap,
                 ghost, counts>>

Next ==
  \/ HandlePlayPause
  \/ HandlePromptChanged
  \/ ConnectResolved
  \/ ConnectRejected
  \/ SetWeightedPromptsResolved
  \/ SetWeightedPromptsRejected
  \/ OnMessageSetupComplete
  \/ OnMessageFilteredPrompt
  \/ OnMessageAudioChunks
  \/ DecodeSettled
  \/ LookaheadTimer
  \/ OnError
  \/ OnClose
  \/ Tick

Spec == Init /\ [][Next]_vars

\* ---- what is in flight ---------------------------------------------------------
\* No continuation and no timer of the program is pending.
Idle ==
  /\ plays = <<>>
  /\ pushes = {}
  /\ timers = <<>>
  /\ \A c \in 1..Len(chunks) : chunks[c].st # "decoding"

\* Idle, and no session is left that could call back.
Quiescent == Idle /\ \A s \in 1..Len(sessions) : sessions[s].status = "closed"

\* ---- claims ---------------------------------------------------------------------

\* C1: no audio buffer is started, and nextStartTime is not advanced, while
\* playbackState is paused or stopped (also for a chunk whose decode ends
\* after the state has changed).
C1_NoStartWhilePausedOrStopped ==
  \A k \in 1..Len(sched) : ~Stopped(sched[k].state)

\* C2: two scheduled chunks of one session get start times in the order in
\* which their messages were received.
C2_ScheduledInArrivalOrder ==
  \A j, k \in 1..Len(sched) :
    (/\ sched[j].chunk < sched[k].chunk
     /\ chunks[sched[j].chunk].sess = chunks[sched[k].chunk].sess)
      => sched[j].at < sched[k].at

\* C3: after handlePlayPause was invoked while loading, the state is stopped
\* and is not loading or playing again until the user toggles again.
C3_CancelStaysStopped ==
  ghost.cancelled => ~Active(playbackState)

\* C4: after a fatal condition and without a new user action, once nothing
\* is left that could move the state, the state is stopped or paused.
C4_FatalSettles ==
  (Quiescent /\ ghost.fatal) => Stopped(playbackState)

\* C5: a play() invoked while no prompt is active shows feedback, ends in
\* the state it started from and does not call session.play().
C5_NoPromptsStaysInPlace ==
  \A k \in 1..Len(ev.ended) :
    ev.ended[k].noActive =>
      /\ playbackState = ev.ended[k].from
      /\ ev.toasts # <<>>
      /\ \A m \in 1..Len(ev.sent) : ev.sent[m].op # "play"

\* C6: once nothing is pending, the last setWeightedPrompts call carried the
\* prompts as they are after the last edit made while connected.
C6_LastEditDelivered ==
  (Idle /\ ghost.burst) => lastSnap = getPromptsToSend(Cur)

\* C7: every session.play() of play() follows, in the same invocation, a
\* setWeightedPrompts call carrying the current active prompts.
C7_PlayAfterPush ==
  \A k \in 1..Len(ev.issued) : ev.issued[k].pushed /\ ev.issued[k].current

\* C8: after the only active prompt was set to weight 0 while playing, once
\* nothing is pending the state is paused and the notification was shown.
C8_ZeroWeightPauses ==
  Idle => ghost.zeroed # "pending"

\* C9: a lookahead timer armed before a pause() or stop() never moves the
\* state to playing.
C9_StaleTimerCancelled ==
  ~ev.staleFired

Forced ==
  /\ playbackState = "stopped"
  /\ connectionError
  /\ ev.toasts # <<>>

\* C10 as claimed: after onerror, or onclose with wasClean = false, in any
\* state: stopped, connectionError, a notification; after an unclean onclose
\* the session handle is cleared.
C10_ErrorForcesStopped ==
  /\ ev.op = "onerror" => Forced
  /\ (ev.op = "onclose" /\ ~ev.wasClean) => (Forced /\ session = 0)

\* C10 amended: onerror in any state, and an unclean onclose in a state other
\* than stopped, leave stopped, connectionError and a notification; after an
\* unclean onclose the session handle is cleared.
C10_ErrorForcesStoppedUnlessStopped ==
  /\ ev.op = "onerror" => Forced
  /\ (ev.op = "onclose" /\ ~ev.wasClean /\ ev.prev # "stopped") => Forced
  /\ (ev.op = "onclose" /\ ~ev.wasClean) => session = 0

\* An unclean close arrived while the state was not stopped.
C10_UncleanCloseWhileActive ==
  /\ ev.op = "onclose" /\ ~ev.wasClean /\ Active(ev.prev)
  /\ Forced /\ session = 0

\* C11: within one playback sequence (no reset of the cursor in between) a
\* chunk starts no earlier than the previous start plus the previous
\* duration, also across an underrun re-anchor, and nextStartTime never
\* decreases except by a reset to 0.
C11_NoOverlapInSequence ==
  /\ [](\A k \in 2..Len(sched) :
          ~sched[k].first =>
             sched[k].at >= sched[k - 1].at + sched[k - 1].duration)
  /\ [][nextStartTime' >= nextStartTime \/ nextStartTime' = 0]_vars

\* Two chunks of one sequence, the second one re-anchored after an underrun.
C11_SecondChunkAfterGap ==
  /\ Len(sched) >= 2
  /\ ~sched[2].first
  /\ sched[2].at > sched[1].at + sched[1].duration

\* C12: every audio chunk of a message that reached scheduling is scheduled
\* exactly once, also when the message's audioChunks list holds more than one
\* element.
C12_EveryChunkScheduledOnce ==
  \A c \in 1..Len(chunks) :
     chunks[c].st = "scheduled" =>
        Cardinality({k \in 1..Len(sched) : sched[k].chunk = c}) = chunks[c].n

\* C13: a text in the filtered set stays there, and is left out of every
\* setWeightedPrompts call, for as long as some prompt keeps that text with a
\* weight above 0.
C13_FilteredTextStaysFiltered ==
  [][\A T \in filteredPrompts :
        (\E i \in PromptIds : prompts'[i].text = T /\ prompts'[i].weight > 0)
        => /\ T \in filteredPrompts'
           /\ \A m \in 1..Len(ev'.sent) :
                 ev'.sent[m].op = "setWeightedPrompts"
                 => T \notin TextsOf(ev'.sent[m].snap)]_vars

\* C14: no setWeightedPrompts, play or pause command is sent while
\* connectionError is true, nor through a session that has already reported
\* onerror or onclose.
C14_NoCommandOnBrokenSession ==
  \A m \in 1..Len(ev.sent) :
     ev.sent[m].op \in {"setWeightedPrompts", "play", "pause"}
     => ~ev.sent[m].err /\ ev.sent[m].status = "open"

\* The throttled push executed its function in this step (throttle, line 45).
PushExecuted == lastCall' # lastCall

\* The active snapshot the executing push reads.
SnapshotAtPush ==
  getPromptsToSend([prompts |-> prompts', filteredPrompts |-> filteredPrompts'])

PushesNothingAndPauses ==
  /\ \A m \in 1..Len(ev'.sent) : ev'.sent[m].op # "setWeightedPrompts"
  /\ Len(ev'.toasts) = 1
  /\ playbackState' = "paused"

\* C15: whenever the throttled push executes with an empty active snapshot
\* while the state is playing or loading, it sends no prompts, shows exactly
\* one notification and leaves the state paused.
C15_EmptyPushPauses ==
  [][(PushExecuted /\ Len(SnapshotAtPush) = 0 /\ Active(playbackState))
     => PushesNothingAndPauses]_vars

\* C15 restricted to executions that find a session handle and no
\* connectionError.
C15_EmptyPushPausesWithSession ==
  [][(/\ PushExecuted /\ Len(SnapshotAtPush) = 0 /\ Active(playbackState)
      /\ session # 0 /\ ~connectionError)
     => PushesNothingAndPauses]_vars

\* An edit emptied the active snapshot of a live session and the push paused.
C15_PausedByEmptyPush ==
  /\ ev.op = "handlePromptChanged" /\ Active(ev.prev)
  /\ ev.toasts = <<"No active prompts. Pausing music.">>
  /\ playbackState = "paused"
  /\ session # 0 /\ ~connectionError
  /\ lastCall = now
  /\ Len(getPromptsToSend(Cur)) = 0

\* C16: an execution of the throttled push, and so a setWeightedPrompts
\* call, comes no sooner than 250 ms after the previous execution, and one
\* step makes at most one call.
C16_PushesThrottleDelayApart ==
  [][/\ PushExecuted
        => lastCall = NeverCalled \/ lastCall' - lastCall >= ThrottleDelay
     /\ pushCount' # pushCount
        => /\ pushCount' = pushCount + 1
           /\ lastCall' = now'
           /\ lastCall = NeverCalled \/ now' - lastCall >= ThrottleDelay]_vars

\* A second setWeightedPrompts call has just been made.
C16_SecondPushSent ==
  /\ pushCount >= 2
  /\ lastCall = now
  /\ \E m \in 1..Len(ev.sent) : ev.sent[m].op = "setWeightedPrompts"

\* The decode of chunk c returned a buffer in this step, so the handler goes
\* on to the scheduling code of lines 373-396.
ReachesScheduling(c) ==
  /\ chunks[c].st = "decoding"
  /\ chunks'[c].st \notin {"decoding", "failed"}

\* C17: a chunk that reaches scheduling with the cursor set but behind the
\* audio clock, in a state other than paused and stopped, sets the state to
\* loading, starts at now + 0.2 s, a gap below the lookahead, and leaves the
\* cursor at that start plus the chunk's duration.
C17_UnderrunReanchors ==
  [][\A c \in 1..Len(chunks) :
        (/\ ReachesScheduling(c)
         /\ nextStartTime # 0 /\ nextStartTime < now
         /\ ~Stopped(playbackState))
        => /\ playbackState' = "loading"
           /\ Len(sched') = Len(sched) + 1
           /\ sched'[Len(sched')].chunk = c
           /\ sched'[Len(sched')].at = now + UnderrunGap
           /\ nextStartTime' = now + UnderrunGap + sched'[Len(sched')].duration
           /\ UnderrunGap < bufferTime]_vars

\* A chunk decoded while playing found the cursor in the past.
C17_UnderrunWhilePlaying ==
  /\ ev.op = "decoded" /\ ev.started /\ ev.prev = "playing"
  /\ playbackState = "loading"
  /\ Len(sched) >= 2
  /\ sched[Len(sched)].at = now + UnderrunGap
  /\ sched[Len(sched) - 1].at + sched[Len(sched) - 1].duration < now
  /\ nextStartTime = sched[Len(sched)].at + sched[Len(sched)].duration

\* C18: the first chunk that reaches scheduling while the state is loading
\* and the cursor is unset starts at now + bufferTime, leaves the cursor at
\* that start plus the chunk's duration and arms a timer due at now +
\* bufferTime; the timer does not run before it is due, and when it runs in
\* state loading the state becomes playing.
C18_FirstChunkAnchorsAndTimerPlays ==
  [][/\ \A c \in 1..Len(chunks) :
          (/\ ReachesScheduling(c)
           /\ nextStartTime = 0 /\ playbackState = "loading")
          => /\ Len(sched') = Len(sched) + 1
             /\ sched'[Len(sched')].chunk = c
             /\ sched'[Len(sched')].at = now + bufferTime
             /\ nextStartTime' = now + bufferTime + sched'[Len(sched')].duration
             /\ timers' = Append(timers, [due |-> now + bufferTime,
                                          stale |-> FALSE])
             /\ playbackState' = "loading"
     /\ ev'.op = "lookahead"
          => /\ timers # <<>> /\ timers' = Tail(timers)
             /\ now >= Head(timers).due
             /\ playbackState = "loading" => playbackState' = "playing"]_vars

\* The timer of the first chunk has just turned loading into playing.
C18_TimerSetPlaying ==
  /\ ev.op = "lookahead" /\ ev.prev = "loading" /\ ~ev.staleFired
  /\ playbackState = "playing"
  /\ sched # <<>> /\ sched[Len(sched)].first
  /\ now >= sched[Len(sched)].at

\* C19: stop(), which handlePlayPause invokes in state loading, leaves the
\* state stopped, sends session.stop() exactly when a session exists, clears
\* the handle and resets the cursor to 0; the next play() after it opens a new
\* connection and sends nothing before that.
C19_StopThenFreshConnect ==
  [][/\ (ev'.op = "handlePlayPause" /\ playbackState = "loading")
        => /\ playbackState' = "stopped"
           /\ session' = 0
           /\ nextStartTime' = 0
           /\ session # 0 => /\ Len(ev'.sent) = 1
                             /\ ev'.sent[1].op = "stop"
                             /\ ev'.sent[1].sess = session
           /\ session = 0 => ev'.sent = <<>>
     /\ (ev'.op = "handlePlayPause" /\ ghost.cancelled
         /\ Stopped(playbackState))
        => /\ ev'.sent = <<>>
           /\ Len(sessions') = Len(sessions) + 1
           /\ sessions'[Len(sessions')].status = "connecting"]_vars

\* pause() ran in this step from playing or loading: the toggle in state
\* playing, or the push that found no active prompt.
PauseInvoked ==
  /\ ev'.op \in {"handlePlayPause", "handlePromptChanged"}
  /\ Active(playbackState) /\ playbackState' = "paused"

PauseFrame ==
  /\ session' = session
  /\ connectionError' = connectionError
  /\ nextStartTime' = nextStartTime

SentPauseOnly ==
  /\ Len(ev'.sent) = 1
  /\ ev'.sent[1].op = "pause" /\ ev'.sent[1].sess = session

\* C20: pause() invoked from playing or loading sets paused, sends
\* session.pause() and leaves the handle, connectionError and the cursor as
\* they were, so that a play() invoked next finds a session to resume and
\* does not connect.
C20_PauseKeepsSession ==
  [][PauseInvoked
     => /\ PauseFrame
        /\ session # 0 /\ SentPauseOnly
        /\ ~connectionError']_vars

\* C20 with session.pause() and the resume tied to the existence of a handle:
\* pause() sends session.pause() exactly when there is a handle, and a play()
\* invoked in state paused with a handle and no connectionError opens no
\* connection.
C20_PauseKeepsSessionIfAny ==
  [][/\ PauseInvoked
        => /\ PauseFrame
           /\ session # 0 => SentPauseOnly
           /\ session = 0 => ev'.sent = <<>>
     /\ (/\ ev'.op = "handlePlayPause" /\ playbackState = "paused"
         /\ session # 0 /\ ~connectionError)
        => /\ Len(sessions') = Len(sessions)
           /\ session' = session]_vars

\* The toggle paused a playing session and kept its handle.
C20_PausedWithSession ==
  /\ ev.op = "handlePlayPause" /\ ev.prev = "playing"
  /\ playbackState = "paused"
  /\ session # 0 /\ ~connectionError /\ nextStartTime # 0
  /\ Len(ev.sent) = 1 /\ ev.sent[1].op = "pause" /\ ev.sent[1].sess = session

\* The number of session.pause() calls among the commands of a step.
PausesSent(sent) ==
  Cardinality({m \in 1..Len(sent) : sent[m].op = "pause"})

\* C21: pause() called twice in a row, from any state, leaves the state
\* paused and sends session.pause() at most once; each of the two ramps
\* starts from the value the gain has at that moment and leads to 0, and a
\* pause() called in state paused sends nothing.
C21_PauseTwice ==
  LET once == pause(Begin("pause"))
      twice == pause(once)
  IN /\ once.playbackState = "paused" /\ twice.playbackState = "paused"
     /\ PausesSent(twice.ev.sent) <= 1
     /\ twice.ev.sent = once.ev.sent
     /\ once.gain = [value |-> gain.value, target |-> 0]
     /\ twice.gain = [value |-> gain.value, target |-> 0]
     /\ twice.session = session
     /\ playbackState = "paused" => once.ev.sent = <<>>

\* pause() has just run on a playing session and its ramp from 1 to 0 is
\* still under way: a second pause() now finds a pending automation.
C21_PausedWhileRamping ==
  /\ ev.op = "handlePlayPause" /\ ev.prev = "playing"
  /\ playbackState = "paused" /\ session # 0
  /\ PausesSent(ev.sent) = 1
  /\ gain = [value |-> 1, target |-> 0]

\* C22: when the connect of a play() fails, that play() ends with the state
\* stopped and connectionError true, reports the failure and has called
\* neither setWeightedPrompts nor session.play(): neither in the step that
\* started the connect nor in the step that handles the failure.
C22_ConnectFailureStops ==
  [][/\ Len(sessions') > Len(sessions) => ev'.sent = <<>>
     /\ ev'.op = "connectRejected"
        => /\ playbackState' = "stopped"
           /\ connectionError'
           /\ ev'.toasts = <<"Connection failed", "Connection failed. Cannot play.">>
           /\ ev'.sent = <<>>
           /\ pushCount' = pushCount
           /\ Len(plays') = Len(plays) - 1
           /\ Len(ev'.ended) = 1 /\ ev'.issued = <<>>]_vars

\* The connect of a play() has just failed.
C22_ConnectJustFailed ==
  /\ ev.op = "connectRejected" /\ ev.prev = "loading"
  /\ playbackState = "stopped" /\ connectionError
  /\ session = 0
  /\ \E k \in 1..Len(sessions) : sessions[k].status = "closed"

\* C23: a connection is opened only by the play toggle pressed in state
\* paused or stopped; no timer, prompt edit, settled promise or server event
\* opens one, whatever failure came before.
C23_ConnectOnlyByToggle ==
  [][Len(sessions') # Len(sessions)
     => /\ ev'.op = "handlePlayPause"
        /\ Stopped(playbackState)
        /\ Len(sessions') = Len(sessions) + 1
        /\ sessions'[Len(sessions')].status = "connecting"]_vars

\* After a fatal error the user edits a prompt and nothing reconnects.
C23_EditAfterFailure ==
  /\ ev.op = "handlePromptChanged"
  /\ connectionError /\ playbackState = "stopped"
  /\ sessions # <<>>
  /\ \A k \in 1..Len(sessions) : sessions[k].status # "connecting"
  /\ plays = <<>>

\* The decode of chunk c failed in this step.
DecodeFails(c) ==
  /\ chunks[c].st = "decoding"
  /\ chunks'[c].st = "failed"

\* C24: a chunk whose decode fails is not started, leaves the cursor, the
\* state, the timers and everything else but its own record as they were, so
\* that the chunks after it are handled as if it had not arrived; a failed
\* chunk never appears among the started ones.
C24_FailedDecodeDropped ==
  /\ [](\A k \in 1..Len(sched) : chunks[sched[k].chunk].st = "scheduled")
  /\ [][\A c \in 1..Len(chunks) :
          DecodeFails(c)
          => /\ ~ev'.started /\ sched' = sched
             /\ nextStartTime' = nextStartTime
             /\ playbackState' = playbackState
             /\ timers' = timers
             /\ session' = session /\ connectionError' = connectionError
             /\ sessions' = sessions /\ gain' = gain
             /\ \A d \in 1..Len(chunks) : d # c => chunks'[d] = chunks[d]]_vars

\* A chunk failed to decode and the next chunk of the stream was started.
C24_ScheduledAfterFailure ==
  /\ Len(chunks) >= 2
  /\ chunks[1].st = "failed" /\ chunks[2].st = "scheduled"
  /\ ev.op = "decoded" /\ ev.started
  /\ sched # <<>> /\ sched[Len(sched)].chunk = 2

\* C25: the step in which a setWeightedPrompts call rejects reports the error
\* and leaves the state, the handle, connectionError, the cursor and the
\* filtered set as they were.
C25_PushRejectionChangesNothing ==
  [][ev'.op = "setWeightedPromptsRejected"
     => /\ ev'.toasts = <<"Error setting prompts">>
        /\ playbackState' = playbackState
        /\ session' = session
        /\ connectionError' = connectionError
        /\ nextStartTime' = nextStartTime
        /\ filteredPrompts' = filteredPrompts]_vars

\* C25 with the play() invocations that await the rejected push taken into
\* account: the rejection is reported once and leaves the handle,
\* connectionError and the filtered set as they were; the state and the
\* cursor are left as they were too, unless a play() awaited the push, which
\* then goes on as after a successful push.
C25_PushRejectionTolerated ==
  [][ev'.op = "setWeightedPromptsRejected"
     => /\ ev'.toasts = <<"Error setting prompts">>
        /\ session' = session
        /\ connectionError' = connectionError
        /\ filteredPrompts' = filteredPrompts
        /\ plays' = plays
           => /\ playbackState' = playbackState
              /\ nextStartTime' = nextStartTime
              /\ ev'.sent = <<>>
        /\ plays' # plays
           => \/ /\ playbackState' = playbackState
                 /\ nextStartTime' = nextStartTime
                 /\ ev'.sent = <<>>
              \/ /\ playbackState' = "loading" /\ nextStartTime' = 0
                 /\ \A m \in 1..Len(ev'.sent) : ev'.sent[m].op = "play"]_vars

\* A push made by a prompt edit during playback has just been rejected.
C25_EditPushRejected ==
  /\ ev.op = "setWeightedPromptsRejected"
  /\ ev.ended = <<>> /\ ev.sent = <<>>
  /\ Active(playbackState) /\ playbackState = ev.prev
  /\ session # 0 /\ ~connectionError

\* C26: an onclose or onerror of a session other than the one the handle
\* refers to leaves the handle, the session it refers to and connectionError
\* as they were.
C26_OldCallbackSparesSuccessor ==
  [][\A s \in 1..Len(sessions) :
        (/\ ev'.op \in {"onclose", "onerror"}
         /\ session # 0 /\ s # session
         /\ sessions'[s].status # sessions[s].status)
        => /\ session' = session
           /\ sessions'[session] = sessions[session]
           /\ connectionError' = connectionError]_vars

\* C27: whenever the state is playing the cursor is set.
C27_PlayingHasCursor ==
  playbackState = "playing" => nextStartTime # 0

\* C28: an underrun that takes the state from playing back to loading leaves
\* a lookahead timer armed, the only code that sets playing, so that the state
\* returns to playing without the user.
C28_UnderrunReturnsToPlaying ==
  (ev.op = "decoded" /\ ev.started /\ ev.prev = "playing"
   /\ playbackState = "loading")
  => timers # <<>>

\* C29: at most one session is connecting or open at any time, and the
\* chunks that reach the scheduler come from one session at a time.
C29_OneSessionAtATime ==
  /\ Cardinality({s \in 1..Len(sessions) :
                    sessions[s].status \in {"connecting", "open"}}) <= 1
  /\ Cardinality({s \in 1..Len(sessions) :
                    sessions[s].status = "open" /\ sessions[s].played}) <= 1

\* C30: play() never reaches this.session.play() with a null handle: when
\* the handle was cleared while play() was suspended, play() ends without
\* dereferencing it.
C30_NoPlayOnNullHandle ==
  ~ev.nullDeref

====
